---- MODULE Spec2Model ----
(***************************************************************************)
(* Host-side driver for the Pololu Maestro servo controllers               *)
(* (src/maestro.py).                                                       *)
(*                                                                         *)
(* Representation.  Every quantity the driver holds in microseconds        *)
(* (targets, limits, positions) is a Python float.  The model holds it as  *)
(* an integer number of eighths of a microsecond, so that 4 * target_us    *)
(* is a multiple of one half and round() and int(float()) can disagree as  *)
(* they do on floats.  1000 us is 8000, 4095.75 us is 32766.               *)
(* Python's None is the value None below.  A raised exception is the name  *)
(* of its class in the field "raised" ("none" when the call returned).     *)
(*                                                                         *)
(* Specifications.  Spec: calls of the target and limit methods on a new   *)
(* instance of either class.  SpecChannels: calls of the per-channel       *)
(* methods.  SpecCodec: _get_lsb_msb applied to one integer.  SpecClose:   *)
(* close() among other calls, on a transport that may fail.  SpecDevice:   *)
(* get_errors and set_pwm.  In these each public method is one action that *)
(* runs the whole call; conn holds the transport operations that call      *)
(* performed.  SpecThreads: threads in send_cmd_bytes, one statement per   *)
(* step.  SpecThreadTargets: threads in set_target, likewise.  SpecWait, SpecWaitFair: wait_until_done_moving polling a device  *)
(* that moves its outputs, one poll per step.  SpecMoving: any_are_moving  *)
(* called while the device moves its outputs.  SpecLimits: set_limits      *)
(* among calls that read the limits or set targets.  SpecWire: the calls   *)
(* that write targets, and the device keeping what was written.            *)
(***************************************************************************)
EXTENDS Integers, Sequences, FiniteSets, TLC

VARIABLES
    model,             \* "micro" (MicroMaestro) or "mini" (MiniMaestro)
    channels,          \* Maestro.channels
    targets,           \* Maestro._targets
    speeds,            \* Maestro._speeds
    accels,            \* Maestro._accels
    target_limits_us,  \* Maestro.target_limits_us
    safe_close,        \* Maestro.safe_close
    _closed,           \* Maestro._closed
    _conn_lock,        \* the thread holding Maestro._conn_lock, None when free
    conn_close_count,  \* number of times Maestro._conn.close() was invoked
    pc,                \* per thread: where it is in send_cmd_bytes
    thread_cmd,        \* per thread: the command it is sending
    sent,              \* per thread: number of commands it has completed
    got,               \* per thread: what its send_cmd_bytes returned or raised
    wire,              \* what all threads did on Maestro._conn, in order
    rx,                \* response bytes the device has sent and nobody has read
    dev_target,        \* device, per channel: the last target written to it
    position,          \* device, per channel: the position it reports
    wait_pc,           \* where the caller of wait_until_done_moving is
    conn,              \* what the most recent call did on Maestro._conn, in order
    call,              \* the most recent call: method, arguments, exception, result
    ncalls,            \* number of calls made so far
    value,             \* argument of _get_lsb_msb (codec specification)
    encoded            \* result of _get_lsb_msb (codec specification)

threadVars == <<pc, thread_cmd, sent, got, wire, rx>>

deviceVars == <<dev_target, position, wait_pc>>

vars == <<model, channels, targets, speeds, accels, target_limits_us,
          safe_close, _closed, _conn_lock, conn_close_count,
          conn, call, ncalls, value, encoded, threadVars, deviceVars>>

-----------------------------------------------------------------------------
(* Bounds of the model *)

MaxCalls == 2
EncodeMargin == 3
MaxCloseCalls == 3
MaxCmds == 2
MaxWaitCalls == 2
MaxDeviceCalls == 2
MaxMovingCalls == 3
MaxLimitCalls == 3
MaxWireCalls == 2

-----------------------------------------------------------------------------
(* Constants of the program *)

None == -1000000

DEFAULT_DEVICE_NUMBER == 12

POLOLU_PROTOCOL == 170
SET_TARGET == 4
SET_SPEED == 7
SET_ACCELERATION == 9
GET_POSITION == 16
GET_MOVING_STATE == 19
GET_ERRORS == 33
SET_PWM == 10
SET_MULTIPLE_TARGETS == 31

MicroChannels == 6
MiniChannels == {12, 18, 24}

\* 16383, the largest value _get_lsb_msb accepts
MaxEncodable == 16383
\* 4095.75 us, the largest target _validate_target_us accepts
MaxTargetUs == 32766
\* 341.3125 us, the largest period set_pwm accepts, in 1/96 us
MaxPwmPeriod == 32766

\* class MaestroError: the value of each member
MaestroError ==
    [SERIAL_SIGNAL_ERROR |-> 1,
     SERIAL_OVERRUN_ERROR |-> 2,
     SERIAL_BUFFER_FULL_ERROR |-> 4,
     SERIAL_CRC_ERROR |-> 8,
     SERIAL_PROTOCOL_ERROR |-> 16,
     SERIAL_TIMEOUT_ERROR |-> 32,
     SCRIPT_STACK_ERROR |-> 64,
     SCRIPT_CALL_STACK_ERROR |-> 128,
     SCRIPT_PROGRAM_COUNTER_ERROR |-> 256]

-----------------------------------------------------------------------------
(* Python arithmetic on the eighth-microsecond representation *)

Abs(x) == IF x < 0 THEN -x ELSE x

\* int(round(4 * t)): round half to even
RoundQuarters(t) ==
    LET q == t \div 2
    IN  IF t % 2 = 0 THEN q
        ELSE IF q % 2 = 0 THEN q ELSE q + 1

\* int(round(48 * t)) for t in 1/96 us: the same rounding of t / 2
Round48(t) == RoundQuarters(t)

\* a & b on non-negative integers
RECURSIVE BitAnd(_, _)
BitAnd(a, b) ==
    IF a = 0 \/ b = 0 THEN 0
    ELSE (a % 2) * (b % 2) + 2 * BitAnd(a \div 2, b \div 2)

\* int(float(4 * t)): truncation toward zero
TruncQuarters(t) == IF t >= 0 THEN t \div 2 ELSE -((-t) \div 2)

-----------------------------------------------------------------------------
(* Byte codec *)

get_lsb_msb_shift8(v) ==
    IF ~(0 <= v /\ v <= MaxEncodable)
    THEN [raised |-> "ValueError", lsb |-> None, msb |-> None]
    ELSE [raised |-> "none", lsb |-> v % 128, msb |-> (v \div 256) % 128]

_get_lsb_msb(v) ==
    IF ~(0 <= v /\ v <= MaxEncodable)
    THEN [raised |-> "ValueError", lsb |-> None, msb |-> None]
    ELSE [raised |-> "none", lsb |-> v % 128, msb |-> (v \div 128) % 128]

-----------------------------------------------------------------------------
(* The state a call works on.  A call is evaluated on a record m holding   *)
(* the per-channel tables, the transport operations performed so far by    *)
(* this call, the exception raised (if any) and the value returned.        *)

Entry == [targets |-> targets, speeds |-> speeds, accels |-> accels,
          limits |-> target_limits_us, closed |-> _closed,
          lock |-> _conn_lock, writes_ok |-> None, conn |-> <<>>,
          raised |-> "none", ret |-> None]

\* the same call on a transport whose write raises after n successful writes
EntryFailing(n) == [Entry EXCEPT !.writes_ok = n]

Raise(m, exc) == [m EXCEPT !.raised = exc, !.ret = None]
Return(m, v) == [m EXCEPT !.ret = v]

\* one operation on the transport: its argument and, for read, what it returned
WriteEvent(data) == [op |-> "write", data |-> data, got |-> <<>>]
FlushEvent == [op |-> "flush", data |-> <<>>, got |-> <<>>]
ReadEvent(n, resp) == [op |-> "read", data |-> <<n>>, got |-> resp]
CloseEvent == [op |-> "close", data |-> <<>>, got |-> <<>>]

\* the thread of the caller in the specifications with one thread
MainThread == 0

-----------------------------------------------------------------------------
(* Command dispatcher *)

pololu_cmd == <<POLOLU_PROTOCOL, DEFAULT_DEVICE_NUMBER>>

\* a read that is tried a second time when it comes back short
read_retry(m, byte_count, resp) ==
    IF byte_count = 0 THEN Return(m, <<>>)
    ELSE LET m1 == [m EXCEPT !.conn = Append(@, ReadEvent(byte_count, resp))]
             m2 == [m1 EXCEPT !.conn = Append(@, ReadEvent(byte_count, resp))]
         IN  IF Len(resp) # byte_count
             THEN Raise(m2, "TimeoutError")
             ELSE Return(m1, resp)

\* resp is what conn.read(byte_count) returns: at most byte_count bytes
_read(m, byte_count, resp) ==
    IF byte_count = 0 THEN Return(m, <<>>)
    ELSE LET m1 == [m EXCEPT !.conn = Append(@, ReadEvent(byte_count, resp))]
         IN  IF Len(resp) # byte_count
             THEN Raise(m1, "TimeoutError")
             ELSE Return(m1, resp)

\* conn.write raises when the transport has failed (m.writes_ok = 0); the
\* with statement releases the lock when the block returns and when it raises
send_cmd_bytes(m, cmd, read, resp) ==
    LET m1 == [m EXCEPT !.lock = MainThread,
                        !.conn = Append(@, WriteEvent(pololu_cmd \o cmd))]
        m2 == IF m.writes_ok = 0 THEN Raise(m1, "SerialException")
              ELSE _read([m1 EXCEPT !.conn = Append(@, FlushEvent),
                                    !.writes_ok = IF @ = None THEN None ELSE @ - 1],
                         read, resp)
    IN  [m2 EXCEPT !.lock = m.lock]

send_cmd(m, args, read, resp) == send_cmd_bytes(m, args, read, resp)

-----------------------------------------------------------------------------
(* Channel state store *)

_validate_channel(channel) == 0 <= channel /\ channel < channels

_validate_target_us(target_us) == 0 <= target_us /\ target_us <= MaxTargetUs

get_limits_body(m, channel) == Return(m, m.limits[channel])

get_limits(m, channel) ==
    IF ~_validate_channel(channel) THEN Raise(m, "ValueError")
    ELSE get_limits_body(m, channel)

\* the pair stored without the comparison of its bounds
set_limits_unordered(m, channel, min_us, max_us) ==
    Return([m EXCEPT !.limits[channel] = <<min_us, max_us>>], None)

set_limits_body(m, channel, min_us, max_us) ==
    IF min_us # None /\ max_us # None /\ min_us > max_us
    THEN Raise(m, "ValueError")
    ELSE Return([m EXCEPT !.limits[channel] = <<min_us, max_us>>], None)

set_limits(m, channel, min_us, max_us) ==
    IF ~_validate_channel(channel) THEN Raise(m, "ValueError")
    ELSE set_limits_body(m, channel, min_us, max_us)

-----------------------------------------------------------------------------
(* Targets *)

_set_target_raw(m, channel, target) ==
    LET e == _get_lsb_msb(target)
    IN  IF e.raised # "none" THEN Raise(m, e.raised)
        ELSE send_cmd(m, <<SET_TARGET, channel, e.lsb, e.msb>>, 0, <<>>)

\* lines 201-205: the target forced into the stored limits
ClampNoMin(lim, target_us) ==
    IF lim[2] # None /\ target_us > lim[2] THEN lim[2] ELSE target_us

Clamp(lim, target_us) ==
    LET t1 == IF lim[1] # None /\ target_us < lim[1] THEN lim[1] ELSE target_us
    IN  IF lim[2] # None /\ t1 > lim[2] THEN lim[2] ELSE t1

set_target_body(m, channel, target_us) ==
    IF ~_validate_target_us(target_us) THEN Raise(m, "ValueError")
    ELSE LET clamped == Clamp(get_limits(m, channel).ret, target_us)
             m1 == _set_target_raw(m, channel, RoundQuarters(clamped))
         IN  IF m1.raised # "none" THEN m1
             ELSE Return([m1 EXCEPT !.targets[channel] = clamped], None)

set_target(m, channel, target_us) ==
    IF ~_validate_channel(channel) THEN Raise(m, "ValueError")
    ELSE set_target_body(m, channel, target_us)

get_target(m, channel) ==
    IF ~_validate_channel(channel) THEN Raise(m, "ValueError")
    ELSE Return(m, m.targets[channel])

stop_channel(m, channel) ==
    IF ~_validate_channel(channel) THEN Raise(m, "ValueError")
    ELSE set_target(m, channel, 0)

-----------------------------------------------------------------------------
(* Batched targets.  A Python dict is the sequence of its <<key, value>>   *)
(* items in insertion order (keys distinct); a list is the sequence of its *)
(* values.  The argument of set_targets is                                 *)
(*   [mapping |-> TRUE,  items |-> <<<<channel, target_us>>, ...>>]  or    *)
(*   [mapping |-> FALSE, items |-> <<target_us, ...>>].                    *)

enumerate(s) == [i \in 1..Len(s) |-> <<i - 1, s[i]>>]

Keys(items) == [i \in 1..Len(items) |-> items[i][1]]

Lookup(items, key) ==
    LET i == CHOOSE j \in 1..Len(items) : items[j][1] = key
    IN  items[i][2]

sorted(s) == SortSeq(s, LAMBDA a, b : a < b)

\* MicroMaestro._set_targets: one set_target per item, in the dict's order
RECURSIVE micro_set_targets(_, _, _)
micro_set_targets(m, items, i) ==
    IF i > Len(items) THEN Return(m, None)
    ELSE LET m1 == set_target(m, items[i][1], items[i][2])
         IN  IF m1.raised # "none" THEN m1
             ELSE micro_set_targets(m1, items, i + 1)

\* lines 566-575: target_blocks as the sequence of its <<first_channel, block>>
\* items; chans is sorted(targets.keys()), i the index of the next channel
RECURSIVE build_target_blocks(_, _, _, _)
build_target_blocks(items, chans, i, blocks) ==
    IF i > Len(chans) THEN blocks
    ELSE LET channel == chans[i]
             target == Lookup(items, channel)
             last == blocks[Len(blocks)]
         IN  IF channel - 1 = chans[i - 1]
             THEN build_target_blocks(items, chans, i + 1,
                      [blocks EXCEPT ![Len(blocks)] =
                          <<last[1], Append(last[2], target)>>])
             ELSE build_target_blocks(items, chans, i + 1,
                      Append(blocks, <<channel, <<target>>>>))

\* lines 588-590: the payload of one block; raised when a target does not encode
RECURSIVE block_payload(_, _, _)
block_payload(target_block, i, cmd) ==
    IF i > Len(target_block) THEN [raised |-> "none", cmd |-> cmd]
    ELSE LET e == _get_lsb_msb(TruncQuarters(target_block[i]))
         IN  IF e.raised # "none" THEN [raised |-> e.raised, cmd |-> cmd]
             ELSE block_payload(target_block, i + 1, cmd \o <<e.lsb, e.msb>>)

\* lines 577-591: one command per block, in the order of target_blocks
RECURSIVE send_target_blocks(_, _, _)
send_target_blocks(m, blocks, i) ==
    IF i > Len(blocks) THEN Return(m, None)
    ELSE LET first_channel == blocks[i][1]
             target_block == blocks[i][2]
             target_count == Len(target_block)
             p == block_payload(target_block, 1,
                      <<SET_MULTIPLE_TARGETS, target_count, first_channel>>)
             m1 == IF target_count = 1
                   THEN set_target(m, first_channel, target_block[1])
                   ELSE IF p.raised # "none" THEN Raise(m, p.raised)
                   ELSE send_cmd_bytes(m, p.cmd, 0, <<>>)
         IN  IF m1.raised # "none" THEN m1
             ELSE send_target_blocks(m1, blocks, i + 1)

\* MiniMaestro._set_targets
mini_set_targets(m, items) ==
    LET chans == sorted(Keys(items))
    IN  IF Len(chans) = 0 THEN Raise(m, "IndexError")
        ELSE LET first_channel == chans[1]
                 blocks == build_target_blocks(items, chans, 2,
                               << <<first_channel, <<Lookup(items, first_channel)>>>> >>)
             IN  send_target_blocks(m, blocks, 1)

_set_targets(m, items) ==
    IF model = "micro" THEN micro_set_targets(m, items, 1)
    ELSE mini_set_targets(m, items)

\* lines 246-247: the loop that records the targets
RECURSIVE record_targets(_, _, _)
record_targets(m, items, i) ==
    IF i > Len(items) THEN Return(m, None)
    ELSE record_targets([m EXCEPT !.targets[items[i][1]] = items[i][2]],
                        items, i + 1)

\* lines 240-242
validate_items(items) ==
    \A i \in 1..Len(items) :
        _validate_channel(items[i][1]) /\ _validate_target_us(items[i][2])

set_targets(m, t) ==
    IF ~t.mapping /\ Len(t.items) # channels THEN Raise(m, "ValueError")
    ELSE LET items == IF t.mapping THEN t.items ELSE enumerate(t.items)
         IN  IF ~validate_items(items) THEN Raise(m, "ValueError")
             ELSE LET m1 == _set_targets(m, items)
                  IN  IF m1.raised # "none" THEN m1
                      ELSE record_targets(m1, items, 1)

stop(m) == set_targets(m, [mapping |-> FALSE, items |-> [i \in 1..channels |-> 0]])

\* an exception raised by stop() leaves close() before conn.close()
close(m) ==
    IF m.closed THEN Return(m, None)
    ELSE LET m1 == IF safe_close THEN stop(m) ELSE m
         IN  IF m1.raised # "none" THEN m1
             ELSE Return([m1 EXCEPT !.conn = Append(@, CloseEvent),
                                    !.closed = TRUE], None)

-----------------------------------------------------------------------------
(* Positions, speed, acceleration, digital and analog channels *)

\* data[1] << 8 | data[0]
_get_position_raw(m, channel, resp) ==
    LET m1 == send_cmd(m, <<GET_POSITION, channel>>, 2, resp)
    IN  IF m1.raised # "none" THEN m1
        ELSE Return(m1, m1.ret[2] * 256 + m1.ret[1])

\* raw / 4 microseconds, in eighths of a microsecond
get_position_body(m, channel, resp) ==
    LET m1 == _get_position_raw(m, channel, resp)
    IN  IF m1.raised # "none" THEN m1 ELSE Return(m1, 2 * m1.ret)

get_position_unchecked(m, channel, resp) == get_position_body(m, channel, resp)

get_position(m, channel, resp) ==
    IF ~_validate_channel(channel) THEN Raise(m, "ValueError")
    ELSE get_position_body(m, channel, resp)

\* the comparison without the test of the target
is_moving_any_target(m, channel, resp) ==
    LET target == m.targets[channel]
        m1 == get_position(m, channel, resp)
    IN  IF m1.raised # "none" THEN m1
        ELSE Return(m1, 100 * Abs(target - m1.ret) > 8)

\* abs(target - position) > 0.01, both in eighths of a microsecond
is_moving_body(m, channel, resp) ==
    LET target == m.targets[channel]
    IN  IF target = None \/ ~(target > 0) THEN Return(m, FALSE)
        ELSE LET m1 == get_position(m, channel, resp)
             IN  IF m1.raised # "none" THEN m1
                 ELSE Return(m1, 100 * Abs(target - m1.ret) > 8)

is_moving(m, channel, resp) ==
    IF ~_validate_channel(channel) THEN Raise(m, "ValueError")
    ELSE is_moving_body(m, channel, resp)

\* the speed recorded before it is encoded
set_speed_record_first(m, channel, speed) ==
    LET e == _get_lsb_msb(speed)
        m0 == [m EXCEPT !.speeds[channel] = speed]
    IN  IF e.raised # "none" THEN Raise(m0, e.raised)
        ELSE Return(send_cmd(m0, <<SET_SPEED, channel, e.lsb, e.msb>>, 0, <<>>), None)

set_speed_body(m, channel, speed) ==
    LET e == _get_lsb_msb(speed)
    IN  IF e.raised # "none" THEN Raise(m, e.raised)
        ELSE LET m1 == send_cmd(m, <<SET_SPEED, channel, e.lsb, e.msb>>, 0, <<>>)
             IN  Return([m1 EXCEPT !.speeds[channel] = speed], None)

set_speed(m, channel, speed) ==
    IF ~_validate_channel(channel) THEN Raise(m, "ValueError")
    ELSE set_speed_body(m, channel, speed)

get_speed(m, channel) ==
    IF ~_validate_channel(channel) THEN Raise(m, "ValueError")
    ELSE Return(m, m.speeds[channel])

set_acceleration_body(m, channel, acceleration) ==
    LET e == _get_lsb_msb(acceleration)
    IN  IF e.raised # "none" THEN Raise(m, e.raised)
        ELSE LET m1 == send_cmd(m, <<SET_ACCELERATION, channel, e.lsb, e.msb>>,
                                0, <<>>)
             IN  Return([m1 EXCEPT !.accels[channel] = acceleration], None)

set_acceleration(m, channel, acceleration) ==
    IF ~_validate_channel(channel) THEN Raise(m, "ValueError")
    ELSE set_acceleration_body(m, channel, acceleration)

get_acceleration(m, channel) ==
    IF ~_validate_channel(channel) THEN Raise(m, "ValueError")
    ELSE Return(m, m.accels[channel])

get_digital(m, channel, resp) ==
    IF ~_validate_channel(channel) THEN Raise(m, "ValueError")
    ELSE LET m1 == _get_position_raw(m, channel, resp)
         IN  IF m1.raised # "none" THEN m1 ELSE Return(m1, m1.ret >= 512)

set_digital(m, channel, v) ==
    IF ~_validate_channel(channel) THEN Raise(m, "ValueError")
    ELSE _set_target_raw(m, channel, IF v THEN 6000 ELSE 0)

\* the voltage raw * 5 / 1023 as the fraction <<raw * 5, 1023>>
get_analog(m, channel, resp) ==
    IF ~_validate_channel(channel) THEN Raise(m, "ValueError")
    ELSE IF ~(0 <= channel /\ channel <= 11) THEN Raise(m, "ValueError")
    ELSE LET m1 == _get_position_raw(m, channel, resp)
         IN  IF m1.raised # "none" THEN m1
             ELSE Return(m1, <<m1.ret * 5, 1023>>)

\* MaestroError.from_error_code
from_error_code(error_code) ==
    {error \in DOMAIN MaestroError : BitAnd(MaestroError[error], error_code) # 0}

\* the register read with its two bytes in the wrong order
get_errors_swapped(m, resp) ==
    LET m1 == send_cmd(m, <<GET_ERRORS>>, 2, resp)
    IN  IF m1.raised # "none" THEN m1
        ELSE Return(m1, from_error_code(m1.ret[1] * 256 + m1.ret[2]))

\* error_code = data[1] << 8 | data[0]
get_errors(m, resp) ==
    LET m1 == send_cmd(m, <<GET_ERRORS>>, 2, resp)
    IN  IF m1.raised # "none" THEN m1
        ELSE Return(m1, from_error_code(m1.ret[2] * 256 + m1.ret[1]))

\* set_pwm without the comparison of on-time and period
set_pwm_unordered(m, on_time_us, period_us) ==
    IF model = "micro" THEN Raise(m, "AttributeError")
    ELSE IF period_us > MaxPwmPeriod THEN Raise(m, "ValueError")
    ELSE LET on_time == _get_lsb_msb(Round48(on_time_us))
             period == _get_lsb_msb(Round48(period_us))
         IN  IF on_time.raised # "none" THEN Raise(m, on_time.raised)
             ELSE IF period.raised # "none" THEN Raise(m, period.raised)
             ELSE send_cmd(m, <<SET_PWM, on_time.lsb, on_time.msb,
                                period.lsb, period.msb>>, 0, <<>>)

\* MiniMaestro.set_pwm, times in 1/96 us; MicroMaestro has no such method
set_pwm(m, on_time_us, period_us) ==
    IF model = "micro" THEN Raise(m, "AttributeError")
    ELSE IF on_time_us > period_us THEN Raise(m, "ValueError")
    ELSE IF period_us > MaxPwmPeriod THEN Raise(m, "ValueError")
    ELSE LET on_time == _get_lsb_msb(Round48(on_time_us))
             period == _get_lsb_msb(Round48(period_us))
         IN  IF on_time.raised # "none" THEN Raise(m, on_time.raised)
             ELSE IF period.raised # "none" THEN Raise(m, period.raised)
             ELSE send_cmd(m, <<SET_PWM, on_time.lsb, on_time.msb,
                                period.lsb, period.msb>>, 0, <<>>)

\* MicroMaestro.any_are_moving: any() stops at the first channel that is
\* moving; resps[c] is what the device answers to GET_POSITION for channel c
RECURSIVE micro_any_are_moving(_, _, _)
micro_any_are_moving(m, resps, c) ==
    IF c >= channels THEN Return(m, FALSE)
    ELSE LET m1 == is_moving(m, c, resps[c])
         IN  IF m1.raised # "none" \/ m1.ret THEN m1
             ELSE micro_any_are_moving(m1, resps, c + 1)

\* MiniMaestro.any_are_moving: state_resp is the answer to GET_MOVING_STATE
mini_any_are_moving(m, state_resp) ==
    LET m1 == send_cmd(m, <<GET_MOVING_STATE>>, 1, state_resp)
    IN  IF m1.raised # "none" THEN m1 ELSE Return(m1, m1.ret[1] # 0)

\* the device-side query sent by either class
any_are_moving_query(m, resps, state_resp) == mini_any_are_moving(m, state_resp)

any_are_moving(m, resps, state_resp) ==
    IF model = "micro" THEN micro_any_are_moving(m, resps, 0)
    ELSE mini_any_are_moving(m, state_resp)

-----------------------------------------------------------------------------
(* Arguments the calls are made with *)

\* channel indices: below the range, in it, and the first one above it
ChannelArgs == {-1, 0, 3, channels}

\* the same and the last channel in the range
AllChannelArgs == ChannelArgs \cup {channels - 1}

\* -1, 0, 0.375, 500, 1500, 2500, 4095.75 and 4095.875 us
TargetArgs == {-8, 0, 3, 4000, 12000, 20000, 32766, 32767}

\* None, 0, 1000 and 5000 us; None, 0 and 2000 us
MinArgs == {None, 0, 8000, 40000}
MaxArgs == {None, 0, 16000}

\* keys and values of the dicts given to set_targets: every set of the valid
\* channels 0, 1, 3 and three sets with a channel out of range; 0.375, 2500
\* and 4095.875 us
MapKeySets == (SUBSET {0, 1, 3}) \cup {{channels}, {0, channels}, {-1, 0}}
MapTargets == {3, 20000, 32767}

RECURSIVE Ascending(_)
Ascending(S) ==
    IF S = {} THEN <<>>
    ELSE LET x == CHOOSE x \in S : \A y \in S : x <= y
         IN  <<x>> \o Ascending(S \ {x})

Reverse(q) == [i \in 1..Len(q) |-> q[Len(q) + 1 - i]]

\* the dicts over the keys S, in ascending and in descending insertion order
Dicts(S) ==
    LET up == Ascending(S)
        down == Reverse(up)
    IN  UNION {{[mapping |-> TRUE, items |-> [i \in 1..Len(up) |-> <<up[i], f[up[i]]>>]],
                [mapping |-> TRUE, items |-> [i \in 1..Len(up) |-> <<down[i], f[down[i]]>>]]}
               : f \in [S -> MapTargets]}

\* lists of one repeated value, of the right length and one short
Lists == {[mapping |-> FALSE, items |-> [i \in 1..n |-> v]] :
              n \in {channels - 1, channels}, v \in {3, 32767}}

TargetsArgs == Lists \cup UNION {Dicts(S) : S \in MapKeySets}

\* what conn.read(2) may return: nothing, one byte, or the raw position
\* 0, 512 or 6000 as two bytes, low byte first
ReadArgs == {<<>>, <<64>>, <<0, 0>>, <<0, 2>>, <<112, 23>>}

SpeedArgs == {-1, 0, 60, 16383, 16384}

-----------------------------------------------------------------------------
(* Actions: one per public method *)

\* the bound on the number of calls
CanCall == ncalls < MaxCalls

\* the call named op with arguments args ran to the end m
Commit(op, args, m) ==
    LET r == m
    IN  /\ targets' = r.targets
        /\ speeds' = r.speeds
        /\ accels' = r.accels
        /\ target_limits_us' = r.limits
        /\ _closed' = r.closed
        /\ _conn_lock' = r.lock
        /\ conn_close_count' =
               conn_close_count
               + Cardinality({i \in 1..Len(r.conn) : r.conn[i].op = "close"})
        /\ conn' = r.conn
        /\ call' = [op |-> op, args |-> args, raised |-> r.raised, ret |-> r.ret]
        /\ UNCHANGED <<model, channels, safe_close, value, encoded, threadVars>>

Call(op, args, m) ==
    /\ Commit(op, args, m)
    /\ ncalls' = ncalls + 1
    /\ UNCHANGED deviceVars

Call_set_target(channel, target_us) ==
    Call("set_target", <<channel, target_us>>, set_target(Entry, channel, target_us))

Call_get_target(channel) ==
    Call("get_target", <<channel>>, get_target(Entry, channel))

Call_set_targets(t) ==
    Call("set_targets", <<t>>, set_targets(Entry, t))

Call_set_limits(channel, min_us, max_us) ==
    Call("set_limits", <<channel, min_us, max_us>>,
         set_limits(Entry, channel, min_us, max_us))

Call_get_limits(channel) ==
    Call("get_limits", <<channel>>, get_limits(Entry, channel))

Call_stop_channel(channel) ==
    Call("stop_channel", <<channel>>, stop_channel(Entry, channel))

Call_stop ==
    Call("stop", <<>>, stop(Entry))

Call_get_errors(resp) ==
    Call("get_errors", <<>>, get_errors(Entry, resp))

Call_set_pwm(on_time_us, period_us) ==
    Call("set_pwm", <<on_time_us, period_us>>, set_pwm(Entry, on_time_us, period_us))

\* writes_ok: None, or the number of writes after which the transport fails
Call_close(writes_ok) ==
    Call("close", <<>>, close(EntryFailing(writes_ok)))

Call_get_position(channel, resp) ==
    Call("get_position", <<channel>>, get_position(Entry, channel, resp))

Call_is_moving(channel, resp) ==
    Call("is_moving", <<channel>>, is_moving(Entry, channel, resp))

Call_set_speed(channel, speed) ==
    Call("set_speed", <<channel, speed>>, set_speed(Entry, channel, speed))

Call_get_speed(channel) ==
    Call("get_speed", <<channel>>, get_speed(Entry, channel))

Call_set_acceleration(channel, acceleration) ==
    Call("set_acceleration", <<channel, acceleration>>,
         set_acceleration(Entry, channel, acceleration))

Call_get_acceleration(channel) ==
    Call("get_acceleration", <<channel>>, get_acceleration(Entry, channel))

Call_get_digital(channel, resp) ==
    Call("get_digital", <<channel>>, get_digital(Entry, channel, resp))

Call_set_digital(channel, v) ==
    Call("set_digital", <<channel, v>>, set_digital(Entry, channel, v))

Call_get_analog(channel, resp) ==
    Call("get_analog", <<channel>>, get_analog(Entry, channel, resp))

-----------------------------------------------------------------------------
(* Specification of the driver: any sequence of calls on a new instance *)

\* _get_lsb_msb not applied yet
NotEncoded == [raised |-> "unset", lsb |-> None, msb |-> None]

NoCall == [op |-> "none", args |-> <<>>, raised |-> "none", ret |-> None]

\* the threads that share the instance, none of them in a call
Threads == {1, 2}

NoCmd == [cmd |-> <<>>, read |-> 0]
NoResult == [raised |-> "unset", data |-> <<>>, seq |-> None]

ThreadsIdle ==
    /\ pc = [t \in Threads |-> "idle"]
    /\ thread_cmd = [t \in Threads |-> NoCmd]
    /\ sent = [t \in Threads |-> 0]
    /\ got = [t \in Threads |-> NoResult]
    /\ wire = <<>>
    /\ rx = <<>>

\* the device after power-up: no target received, every output off, and
\* nobody waiting for it
DeviceIdle ==
    /\ dev_target = [c \in 0..(channels - 1) |-> 0]
    /\ position = [c \in 0..(channels - 1) |-> 0]
    /\ wait_pc = "idle"

\* Maestro.__init__ / MiniMaestro.__init__ with a valid channel count
Init ==
    /\ \/ model = "micro" /\ channels = MicroChannels
       \/ model = "mini" /\ channels \in MiniChannels
    /\ targets = [c \in 0..(channels - 1) |-> None]
    /\ speeds = [c \in 0..(channels - 1) |-> None]
    /\ accels = [c \in 0..(channels - 1) |-> None]
    /\ target_limits_us = [c \in 0..(channels - 1) |-> <<None, None>>]
    /\ safe_close = TRUE
    /\ _closed = FALSE
    /\ _conn_lock = None
    /\ conn_close_count = 0
    /\ conn = <<>>
    /\ call = NoCall
    /\ ncalls = 0
    /\ value = None
    /\ encoded = NotEncoded
    /\ ThreadsIdle
    /\ DeviceIdle

Next ==
    \/ CanCall /\ \E c \in ChannelArgs, t \in TargetArgs : Call_set_target(c, t)
    \/ CanCall /\ \E c \in ChannelArgs : Call_get_target(c)
    \/ CanCall /\ \E t \in TargetsArgs : Call_set_targets(t)
    \/ CanCall /\ \E c \in ChannelArgs, lo \in MinArgs, hi \in MaxArgs : Call_set_limits(c, lo, hi)
    \/ CanCall /\ \E c \in ChannelArgs : Call_get_limits(c)
    \/ CanCall /\ \E c \in ChannelArgs : Call_stop_channel(c)
    \/ CanCall /\ Call_stop

Spec == Init /\ [][Next]_vars

-----------------------------------------------------------------------------
(* Specification of the per-channel operations *)

NextChannels ==
    \/ CanCall /\ \E c \in AllChannelArgs, t \in TargetArgs : Call_set_target(c, t)
    \/ CanCall /\ \E c \in AllChannelArgs : Call_get_target(c)
    \/ CanCall /\ \E c \in AllChannelArgs, lo \in MinArgs, hi \in MaxArgs : Call_set_limits(c, lo, hi)
    \/ CanCall /\ \E c \in AllChannelArgs : Call_get_limits(c)
    \/ CanCall /\ \E c \in AllChannelArgs : Call_stop_channel(c)
    \/ CanCall /\ \E c \in AllChannelArgs, r \in ReadArgs : Call_get_position(c, r)
    \/ CanCall /\ \E c \in AllChannelArgs, r \in ReadArgs : Call_is_moving(c, r)
    \/ CanCall /\ \E c \in AllChannelArgs, v \in SpeedArgs : Call_set_speed(c, v)
    \/ CanCall /\ \E c \in AllChannelArgs : Call_get_speed(c)
    \/ CanCall /\ \E c \in AllChannelArgs, v \in SpeedArgs : Call_set_acceleration(c, v)
    \/ CanCall /\ \E c \in AllChannelArgs : Call_get_acceleration(c)
    \/ CanCall /\ \E c \in AllChannelArgs, r \in ReadArgs : Call_get_digital(c, r)
    \/ CanCall /\ \E c \in AllChannelArgs, v \in BOOLEAN : Call_set_digital(c, v)
    \/ CanCall /\ \E c \in AllChannelArgs, r \in ReadArgs : Call_get_analog(c, r)

SpecChannels == Init /\ [][NextChannels]_vars

-----------------------------------------------------------------------------
(* Specification of the byte codec: _get_lsb_msb applied to one value *)

InitCodec ==
    /\ model = "micro" /\ channels = MicroChannels
    /\ targets = [c \in 0..(channels - 1) |-> None]
    /\ speeds = [c \in 0..(channels - 1) |-> None]
    /\ accels = [c \in 0..(channels - 1) |-> None]
    /\ target_limits_us = [c \in 0..(channels - 1) |-> <<None, None>>]
    /\ safe_close = TRUE
    /\ _closed = FALSE
    /\ _conn_lock = None
    /\ conn_close_count = 0
    /\ conn = <<>>
    /\ call = NoCall
    /\ ncalls = 0
    /\ value \in (0 - EncodeMargin)..(MaxEncodable + EncodeMargin)
    /\ encoded = NotEncoded
    /\ ThreadsIdle
    /\ DeviceIdle

Encode ==
    /\ encoded = NotEncoded
    /\ encoded' = _get_lsb_msb(value)
    /\ UNCHANGED <<model, channels, targets, speeds, accels, target_limits_us,
                   safe_close, _closed, _conn_lock, conn_close_count,
                   conn, call, ncalls, value, threadVars, deviceVars>>

SpecCodec == InitCodec /\ [][Encode]_vars

-----------------------------------------------------------------------------
(* Specification of shutdown: calls of close() among calls that set limits   *)
(* and targets, read a position or stop, on a transport that may fail        *)

\* safe_close is an argument of the constructor
InitClose ==
    /\ \/ model = "micro" /\ channels = MicroChannels
       \/ model = "mini" /\ channels \in MiniChannels
    /\ targets = [c \in 0..(channels - 1) |-> None]
    /\ speeds = [c \in 0..(channels - 1) |-> None]
    /\ accels = [c \in 0..(channels - 1) |-> None]
    /\ target_limits_us = [c \in 0..(channels - 1) |-> <<None, None>>]
    /\ safe_close \in BOOLEAN
    /\ _closed = FALSE
    /\ _conn_lock = None
    /\ conn_close_count = 0
    /\ conn = <<>>
    /\ call = NoCall
    /\ ncalls = 0
    /\ value = None
    /\ encoded = NotEncoded
    /\ ThreadsIdle
    /\ DeviceIdle

CanCallClose == ncalls < MaxCloseCalls

\* a minimum of 1000 or 5000 us; a target of 1500 us; a short and a full
\* response; a transport that works, fails at once or fails after one write
CloseMinArgs == {8000, 40000}
CloseReadArgs == {<<>>, <<112, 23>>}
WritesOkArgs == {None, 0, 1}

NextClose ==
    \/ CanCallClose /\ \E lo \in CloseMinArgs : Call_set_limits(0, lo, None)
    \/ CanCallClose /\ Call_set_target(0, 12000)
    \/ CanCallClose /\ \E r \in CloseReadArgs : Call_get_position(0, r)
    \/ CanCallClose /\ Call_stop
    \/ CanCallClose /\ \E w \in WritesOkArgs : Call_close(w)

SpecClose == InitClose /\ [][NextClose]_vars

-----------------------------------------------------------------------------
(* Specification of the dispatcher under threads: each thread calls          *)
(* send_cmd_bytes repeatedly, one statement of it (lines 507-510) per step.  *)
(* The device answers a request that has a response when the request is      *)
(* written, in full or (a timeout) not at all; a response byte is the        *)
(* request it answers.                                                       *)

\* SET_TARGET (no response) and GET_POSITION (two bytes) on channel 0
ThreadCmds ==
    {[cmd |-> <<SET_TARGET, 0, 0, 0>>, read |-> 0],
     [cmd |-> <<GET_POSITION, 0>>, read |-> 2]}

driverVars == <<model, channels, targets, speeds, accels, target_limits_us,
                safe_close, _closed, conn_close_count,
                conn, call, ncalls, value, encoded, deviceVars>>

\* thread t calls send_cmd_bytes(c.cmd, read = c.read)
t_call(t, c) ==
    /\ pc[t] = "idle"
    /\ sent[t] < MaxCmds
    /\ pc' = [pc EXCEPT ![t] = "acquire"]
    /\ thread_cmd' = [thread_cmd EXCEPT ![t] = c]
    /\ got' = [got EXCEPT ![t] = NoResult]
    /\ UNCHANGED <<_conn_lock, sent, wire, rx, driverVars>>

\* a lock that never blocks
acquire_unlocked(t) == TRUE

\* RLock.acquire returns when the lock is free or held by the caller
can_acquire(t) == _conn_lock \in {None, t}

t_acquire(t) ==
    /\ pc[t] = "acquire"
    /\ can_acquire(t)
    /\ _conn_lock' = t
    /\ pc' = [pc EXCEPT ![t] = "write"]
    /\ UNCHANGED <<thread_cmd, sent, got, wire, rx, driverVars>>

t_write(t, answered) ==
    /\ pc[t] = "write"
    /\ wire' = Append(wire, [op |-> "write", by |-> t, seq |-> sent[t],
                             data |-> pololu_cmd \o thread_cmd[t].cmd,
                             read |-> thread_cmd[t].read])
    /\ rx' = IF answered
             THEN rx \o [i \in 1..thread_cmd[t].read |-> [to |-> t, seq |-> sent[t]]]
             ELSE rx
    /\ pc' = [pc EXCEPT ![t] = "flush"]
    /\ UNCHANGED <<_conn_lock, thread_cmd, sent, got, driverVars>>

t_flush(t) ==
    /\ pc[t] = "flush"
    /\ wire' = Append(wire, [op |-> "flush", by |-> t, seq |-> sent[t],
                             data |-> <<>>, read |-> 0])
    /\ pc' = [pc EXCEPT ![t] = "read"]
    /\ UNCHANGED <<_conn_lock, thread_cmd, sent, got, rx, driverVars>>

\* _read: conn.read(n) returns the first n bytes received, fewer on a timeout
t_read(t) ==
    /\ pc[t] = "read"
    /\ LET n == thread_cmd[t].read
           k == IF Len(rx) < n THEN Len(rx) ELSE n
           data == SubSeq(rx, 1, k)
       IN  IF n = 0
           THEN /\ got' = [got EXCEPT ![t] =
                              [raised |-> "none", data |-> <<>>, seq |-> sent[t]]]
                /\ UNCHANGED <<wire, rx>>
           ELSE /\ wire' = Append(wire, [op |-> "read", by |-> t, seq |-> sent[t],
                                         data |-> data, read |-> n])
                /\ rx' = SubSeq(rx, k + 1, Len(rx))
                /\ got' = [got EXCEPT ![t] =
                              IF Len(data) # n
                              THEN [raised |-> "TimeoutError", data |-> <<>>,
                                    seq |-> sent[t]]
                              ELSE [raised |-> "none", data |-> data,
                                    seq |-> sent[t]]]
    /\ pc' = [pc EXCEPT ![t] = "release"]
    /\ UNCHANGED <<_conn_lock, thread_cmd, sent, driverVars>>

\* the end of the with block, reached by return and by raise
t_release(t) ==
    /\ pc[t] = "release"
    /\ _conn_lock' = None
    /\ pc' = [pc EXCEPT ![t] = "idle"]
    /\ sent' = [sent EXCEPT ![t] = @ + 1]
    /\ UNCHANGED <<thread_cmd, got, wire, rx, driverVars>>

NextThreads ==
    \/ \E t \in Threads, c \in ThreadCmds : t_call(t, c)
    \/ \E t \in Threads : t_acquire(t)
    \/ \E t \in Threads, answered \in BOOLEAN :
           \* only a request that has a response can be left unanswered
           (answered \/ thread_cmd[t].read > 0) /\ t_write(t, answered)
    \/ \E t \in Threads : t_flush(t)
    \/ \E t \in Threads : t_read(t)
    \/ \E t \in Threads : t_release(t)

\* one instance shared by the threads
InitThreads == Init /\ model = "micro"

SpecThreads == InitThreads /\ [][NextThreads]_vars

-----------------------------------------------------------------------------
(* Specification of set_target under threads: each thread calls              *)
(* set_target(0, v) repeatedly.  The call goes through send_cmd_bytes one    *)
(* statement per step, as above; when send_cmd_bytes has returned, the       *)
(* assignment to _targets (line 210) is one more step.                       *)

\* 1000, 1500 and 2000 us
ThreadTargetArgs == {8000, 12000, 16000}

\* thread t calls set_target(0, target_us): lines 197-208 up to the call of
\* send_cmd_bytes, no limits being stored
st_call(t, target_us) ==
    /\ pc[t] = "idle"
    /\ sent[t] < MaxCmds
    /\ _validate_target_us(target_us)
    /\ LET e == _get_lsb_msb(RoundQuarters(Clamp(target_limits_us[0], target_us)))
       IN  thread_cmd' = [thread_cmd EXCEPT ![t] =
                             [cmd |-> <<SET_TARGET, 0, e.lsb, e.msb>>, read |-> 0,
                              target_us |-> Clamp(target_limits_us[0], target_us)]]
    /\ pc' = [pc EXCEPT ![t] = "acquire"]
    /\ got' = [got EXCEPT ![t] = NoResult]
    /\ UNCHANGED <<_conn_lock, sent, wire, rx, driverVars>>

\* the end of the with block in send_cmd_bytes: the lock is released and the
\* thread returns to set_target
st_release(t) ==
    /\ pc[t] = "release"
    /\ _conn_lock' = None
    /\ pc' = [pc EXCEPT ![t] = "record"]
    /\ UNCHANGED <<thread_cmd, sent, got, wire, rx, driverVars>>

\* line 210: self._targets[channel] = target_us, and the call returns
st_record(t) ==
    /\ pc[t] = "record"
    /\ targets' = [targets EXCEPT ![0] = thread_cmd[t].target_us]
    /\ pc' = [pc EXCEPT ![t] = "idle"]
    /\ sent' = [sent EXCEPT ![t] = @ + 1]
    /\ UNCHANGED <<_conn_lock, thread_cmd, got, wire, rx, model, channels, speeds,
                   accels, target_limits_us, safe_close, _closed, conn_close_count,
                   conn, call, ncalls, value, encoded, deviceVars>>

NextThreadTargets ==
    \/ \E t \in Threads, v \in ThreadTargetArgs : st_call(t, v)
    \/ \E t \in Threads : t_acquire(t)
    \/ \E t \in Threads : t_write(t, TRUE)
    \/ \E t \in Threads : t_flush(t)
    \/ \E t \in Threads : t_read(t)
    \/ \E t \in Threads : st_release(t)
    \/ \E t \in Threads : st_record(t)

SpecThreadTargets == InitThreads /\ [][NextThreadTargets]_vars

-----------------------------------------------------------------------------
(* Specification of waiting: targets are set, wait_until_done_moving is      *)
(* called and polls while the device moves its outputs to the targets it     *)
(* received.  Positions of the device are counts of quarter-microseconds.    *)

\* the device takes the targets of the SET_TARGET and SET_MULTIPLE_TARGETS
\* frames in the transport log, in order
RECURSIVE Deliver(_, _, _)
Deliver(dt, log, i) ==
    IF i > Len(log) THEN dt
    ELSE LET f == log[i].data
         IN  IF log[i].op = "write" /\ Len(f) = 6 /\ f[3] = SET_TARGET
             THEN Deliver([dt EXCEPT ![f[4]] = f[5] + 128 * f[6]], log, i + 1)
             ELSE IF log[i].op = "write" /\ Len(f) > 5 /\ f[3] = SET_MULTIPLE_TARGETS
             THEN Deliver([c \in DOMAIN dt |->
                              IF c \in f[5]..(f[5] + f[4] - 1)
                              THEN f[6 + 2 * (c - f[5])] + 128 * f[7 + 2 * (c - f[5])]
                              ELSE dt[c]], log, i + 1)
             ELSE Deliver(dt, log, i + 1)

\* the answers of the device: the position of each channel as two bytes, low
\* byte first, and one byte that is non-zero while an output is moving
DevicePositions == [c \in 0..(channels - 1) |-> <<position[c] % 256, position[c] \div 256>>]
DeviceMovingState ==
    IF \E c \in 0..(channels - 1) : position[c] # dev_target[c] THEN <<1>> ELSE <<0>>

CanCallWait == wait_pc = "idle" /\ ncalls < MaxWaitCalls

\* a call made before waiting, and the device receiving what it wrote
WaitCall(op, args, m) ==
    /\ Commit(op, args, m)
    /\ ncalls' = ncalls + 1
    /\ dev_target' = Deliver(dev_target, m.conn, 1)
    /\ UNCHANGED <<position, wait_pc>>

\* the device moves the output of one channel to the target it was given
DeviceMove(c) ==
    /\ position[c] # dev_target[c]
    /\ position' = [position EXCEPT ![c] = dev_target[c]]
    /\ UNCHANGED <<dev_target, wait_pc, threadVars, _conn_lock, model, channels,
                   targets, speeds, accels, target_limits_us, safe_close, _closed,
                   conn_close_count, conn, call, ncalls, value, encoded>>

\* wait_until_done_moving is called
StartWait ==
    /\ wait_pc = "idle"
    /\ wait_pc' = "polling"
    /\ UNCHANGED <<dev_target, position, threadVars, _conn_lock, model, channels,
                   targets, speeds, accels, target_limits_us, safe_close, _closed,
                   conn_close_count, conn, call, ncalls, value, encoded>>

\* what any_are_moving() does and returns when called now
PollNow == any_are_moving(Entry, DevicePositions, DeviceMovingState)

\* one evaluation of the loop condition of wait_until_done_moving: the loop
\* sleeps and polls again when it is true, the call returns None when it is
\* false, and an exception of any_are_moving leaves the call
Poll ==
    /\ wait_pc = "polling"
    /\ LET r == PollNow
       IN  /\ wait_pc' = IF r.raised # "none" THEN "raised"
                         ELSE IF r.ret THEN "polling" ELSE "returned"
           /\ Commit("wait_until_done_moving", <<>>, Return(r, None))
    /\ UNCHANGED <<dev_target, position, ncalls>>

\* 0, 1500 and 1500.125 us on channels 0 and 1, one by one and as a pair
WaitTargetArgs == {0, 12000, 12001}
WaitPairs == {[mapping |-> TRUE, items |-> <<<<0, t>>, <<1, u>>>>] :
                  t, u \in {12000, 12001}}

NextWait ==
    \/ CanCallWait /\ \E c \in {0, 1}, t \in WaitTargetArgs :
           WaitCall("set_target", <<c, t>>, set_target(Entry, c, t))
    \/ CanCallWait /\ \E t \in WaitPairs :
           WaitCall("set_targets", <<t>>, set_targets(Entry, t))
    \/ \E c \in 0..(channels - 1) : DeviceMove(c)
    \/ StartWait
    \/ Poll

SpecWait == Init /\ [][NextWait]_vars

\* the poll made now would end the wait
PollEndsWait == wait_pc = "polling" /\ (PollNow.raised # "none" \/ ~PollNow.ret)

\* The device moves every output to its target, and the loop keeps polling.
\* The second condition is WF_wait_pc(Poll) written out: a step of Poll that
\* changes wait_pc is enabled exactly when PollEndsWait holds, and disables
\* itself.
SpecWaitFair ==
    /\ SpecWait
    /\ WF_position(\E c \in 0..(channels - 1) : DeviceMove(c))
    /\ []<>~PollEndsWait

-----------------------------------------------------------------------------
(* Specification of the device-wide commands: calls of get_errors and        *)
(* set_pwm on a new instance                                                 *)

CanCallDevice == ncalls < MaxDeviceCalls

\* what conn.read(2) may return for GET_ERRORS: nothing, one byte, every
\* register with bits 0..8, and registers with the unused bits 9..15
ErrorReadArgs ==
    {<<>>, <<1>>}
    \cup {<<lo, hi>> : lo \in 0..255, hi \in {0, 1}}
    \cup {<<0, 2>>, <<1, 254>>, <<255, 255>>}

\* -1/48, -1/96, 0, 1/96, 1/32, 100, 341.3125 - 1/96, 341.3125, 341.3125 + 1/96
\* and 341.3125 + 1/48 us
PwmArgs == {-2, -1, 0, 1, 3, 9600, 32765, 32766, 32767, 32768}

NextDevice ==
    \/ CanCallDevice /\ \E r \in ErrorReadArgs : Call_get_errors(r)
    \/ CanCallDevice /\ \E on \in PwmArgs, per \in PwmArgs : Call_set_pwm(on, per)

SpecDevice == Init /\ [][NextDevice]_vars

-----------------------------------------------------------------------------
(* Specification of the moving-state queries: targets are set, the device    *)
(* moves its outputs, and any_are_moving is called                           *)

CanCallMoving == wait_pc = "idle" /\ ncalls < MaxMovingCalls

\* what conn.read(1) may return for GET_MOVING_STATE: nothing or one byte
MovingStateArgs == {<<>>, <<0>>, <<1>>, <<255>>}

\* the answers to GET_POSITION: the positions of the device, or nothing when
\* the device does not answer
PositionAnswers(answered) ==
    IF answered THEN DevicePositions ELSE [c \in 0..(channels - 1) |-> <<>>]

Call_any_are_moving(answered, state_resp) ==
    WaitCall("any_are_moving", <<>>,
             any_are_moving(Entry, PositionAnswers(answered), state_resp))

NextMoving ==
    \/ CanCallMoving /\ \E c \in {0, 1}, t \in WaitTargetArgs :
           WaitCall("set_target", <<c, t>>, set_target(Entry, c, t))
    \/ \E c \in 0..(channels - 1) : DeviceMove(c)
    \/ CanCallMoving /\ \E answered \in BOOLEAN, r \in MovingStateArgs :
           Call_any_are_moving(answered, r)

SpecMoving == Init /\ [][NextMoving]_vars

-----------------------------------------------------------------------------
(* Specification of the limits: calls of set_limits among calls that read    *)
(* the limits or set targets                                                 *)

CanCallLimits == ncalls < MaxLimitCalls

NextLimits ==
    \/ CanCallLimits /\ \E c \in ChannelArgs, lo \in MinArgs, hi \in MaxArgs :
           Call_set_limits(c, lo, hi)
    \/ CanCallLimits /\ \E c \in ChannelArgs : Call_get_limits(c)
    \/ CanCallLimits /\ \E t \in {4000, 20000} : Call_set_target(0, t)
    \/ CanCallLimits /\ Call_stop

SpecLimits == Init /\ [][NextLimits]_vars

-----------------------------------------------------------------------------
(* Specification of the wire: calls that write targets, with no limits       *)
(* stored, and the device keeping the last target written for each channel   *)

CanCallWire == ncalls < MaxWireCalls

\* 0.125, 0.375, 1000 and 4095.375 us, one by one and as a dict over
\* channels 0 and 1
WireTargetArgs == {1, 3, 8000, 32763}
WirePairs == {[mapping |-> TRUE, items |-> <<<<0, t>>, <<1, u>>>>] :
                  t, u \in WireTargetArgs}

NextWire ==
    \/ CanCallWire /\ \E c \in {0, 1}, t \in WireTargetArgs :
           WaitCall("set_target", <<c, t>>, set_target(Entry, c, t))
    \/ CanCallWire /\ \E t \in WirePairs :
           WaitCall("set_targets", <<t>>, set_targets(Entry, t))
    \/ CanCallWire /\ WaitCall("stop", <<>>, stop(Entry))
    \/ CanCallWire /\ \E c \in {0, 1} :
           WaitCall("stop_channel", <<c>>, stop_channel(Entry, c))
    \/ CanCallWire /\ \E c \in {0, 1}, v \in BOOLEAN :
           WaitCall("set_digital", <<c, v>>, set_digital(Entry, c, v))

SpecWire == Init /\ [][NextWire]_vars

-----------------------------------------------------------------------------
(* Properties *)

\* C1: for every integer v in [0, 16383], _get_lsb_msb(v) returns two bytes
\* in 0..127 with lsb | (msb << 7) = v (the bytes share no bit, so the
\* bitwise or is lsb + 128 * msb); for every v outside it raises the range
\* error and returns no bytes.
C1_EncodeRoundTrip ==
    encoded # NotEncoded =>
        IF 0 <= value /\ value <= 16383
        THEN /\ encoded.raised = "none"
             /\ encoded.lsb \in 0..127
             /\ encoded.msb \in 0..127
             /\ encoded.lsb + 128 * encoded.msb = value
        ELSE /\ encoded.raised = "ValueError"
             /\ encoded.lsb = None /\ encoded.msb = None

\* the largest encodable value has been encoded
C1_Witness ==
    encoded # NotEncoded /\ value = 16383 /\ encoded.raised = "none"
    /\ encoded.lsb = 127 /\ encoded.msb = 127

-----------------------------------------------------------------------------
(* Reading the transport log and the arguments of the most recent call *)

\* the frames the most recent call wrote, in order
Frames ==
    LET w == SelectSeq(conn, LAMBDA e : e.op = "write")
    IN  [i \in 1..Len(w) |-> w[i].data]

HasHeader(f) ==
    Len(f) >= 3 /\ f[1] = 170 /\ f[2] = 12

\* (0xAA, device, 0x04, channel, lsb, msb)
IsSingleFrame(f) == HasHeader(f) /\ f[3] = 4 /\ Len(f) = 6

\* (0xAA, device, 0x1F, k, first channel, k pairs lsb, msb)
IsBlockFrame(f) ==
    HasHeader(f) /\ f[3] = 31 /\ Len(f) >= 5 /\ Len(f) = 5 + 2 * f[4]

FirstChannel(f) == IF f[3] = 4 THEN f[4] ELSE f[5]
ChannelCount(f) == IF f[3] = 4 THEN 1 ELSE f[4]
Covered(f) == FirstChannel(f)..(FirstChannel(f) + ChannelCount(f) - 1)

\* the quarter-microsecond value a target frame carries for channel c
WireTarget(f, c) ==
    IF f[3] = 4 THEN f[5] + 128 * f[6]
    ELSE f[6 + 2 * (c - f[5])] + 128 * f[7 + 2 * (c - f[5])]

\* the items of the argument of set_targets, as <<channel, target_us>> pairs
ArgItems(t) == IF t.mapping THEN t.items ELSE enumerate(t.items)
ArgChannels(t) == {ArgItems(t)[i][1] : i \in 1..Len(ArgItems(t))}

\* every channel in [0, channel_count), every target in [0, 4095.75]; a list
\* has one target per channel
ValidArg(t) ==
    /\ ~t.mapping => Len(t.items) = channels
    /\ \A i \in 1..Len(ArgItems(t)) :
           /\ ArgItems(t)[i][1] \in 0..(channels - 1)
           /\ 0 <= ArgItems(t)[i][2] /\ ArgItems(t)[i][2] <= 32766

\* v forced into [lo, hi], a bound of None being no bound
Clamped(lo, hi, v) ==
    LET up == IF lo # None /\ v < lo THEN lo ELSE v
    IN  IF hi # None /\ up > hi THEN hi ELSE up

\* the maximal runs of consecutive channels of K, as <<first, last>>
Runs(K) ==
    {<<a, b>> \in K \X K :
        /\ a <= b
        /\ \A c \in a..b : c \in K
        /\ (a - 1) \notin K
        /\ (b + 1) \notin K}

\* w is the quarter-microsecond encoding of a value derived from target t
\* under the limits lim: t or t clamped, rounded to a neighbouring quarter
CarriesTarget(w, lim, t) ==
    \/ 2 * w - t \in -1..1
    \/ 2 * w - Clamped(lim[1], lim[2], t) \in -1..1

\* The frames written are one command per maximal run of the channels K, in
\* ascending order of first channel
OneCommandPerRun(frames, K) ==
    /\ Len(frames) = Cardinality(Runs(K))
    /\ \A i \in 1..Len(frames) :
           /\ \/ IsSingleFrame(frames[i])
              \/ IsBlockFrame(frames[i]) /\ frames[i][4] > 1
           /\ <<FirstChannel(frames[i]),
                FirstChannel(frames[i]) + ChannelCount(frames[i]) - 1>> \in Runs(K)
    /\ \A i, j \in 1..Len(frames) :
           i < j => FirstChannel(frames[i]) < FirstChannel(frames[j])

\* C2: on MiniMaestro, for every valid non-empty channel->target mapping,
\* set_targets writes exactly one command per maximal run of consecutive
\* channels, in ascending order of first channel: SET_TARGET for a run of one
\* channel, SET_MULTIPLE_TARGETS with the k targets in ascending channel
\* order for a run of k > 1; every input channel is covered by exactly one
\* command and no two commands cover adjacent channels.
C2_MiniOneCommandPerRun ==
    (/\ model = "mini"
     /\ call.op = "set_targets"
     /\ call.args[1].mapping
     /\ Len(call.args[1].items) > 0
     /\ ValidArg(call.args[1]))
    => LET t == call.args[1]
           K == ArgChannels(t)
       IN  /\ call.raised = "none"
           /\ OneCommandPerRun(Frames, K)
           /\ \A c \in K :
                  /\ Cardinality({i \in 1..Len(Frames) : c \in Covered(Frames[i])}) = 1
                  /\ \A i \in 1..Len(Frames) :
                         c \in Covered(Frames[i]) =>
                             CarriesTarget(WireTarget(Frames[i], c),
                                           target_limits_us[c],
                                           Lookup(ArgItems(t), c))
           /\ \A i, j \in 1..Len(Frames) :
                  i # j => \A c \in Covered(Frames[i]) :
                               /\ c \notin Covered(Frames[j])
                               /\ (c + 1) \notin Covered(Frames[j])

\* The same whenever the call returns: the batching itself is as claimed
C2_WhenReturned ==
    (call.op = "set_targets" /\ call.raised = "none") => C2_MiniOneCommandPerRun

\* C3: on MicroMaestro, for every valid mapping or full-length list,
\* set_targets writes exactly one SET_TARGET frame per input channel and
\* never a SET_MULTIPLE_TARGETS frame.
C3_MicroOneFramePerChannel ==
    (/\ model = "micro"
     /\ call.op = "set_targets"
     /\ ValidArg(call.args[1]))
    => LET K == ArgChannels(call.args[1])
       IN  /\ call.raised = "none"
           /\ Len(Frames) = Cardinality(K)
           /\ \A i \in 1..Len(Frames) : IsSingleFrame(Frames[i])
           /\ \A c \in K :
                  Cardinality({i \in 1..Len(Frames) : Frames[i][4] = c}) = 1

C3_WhenReturned ==
    (call.op = "set_targets" /\ call.raised = "none") => C3_MicroOneFramePerChannel

\* C4: rejection of set_targets is atomic on both variants and after any
\* prior set_limits calls: a set_targets call that fails with a value/range
\* error has written nothing to the transport and changed no recorded
\* target; otherwise every entry is dispatched (a written command covers it).
C4_RejectionAtomic ==
    [][call'.op = "set_targets" =>
          IF call'.raised = "ValueError"
          THEN conn' = <<>> /\ targets' = targets
          ELSE \A c \in ArgChannels(call'.args[1]) :
                   \E i \in 1..Len(Frames') : c \in Covered(Frames'[i])]_vars

\* What the code guarantees: a set_targets call whose argument is invalid (a
\* channel or target out of range, a list of the wrong length) is rejected
\* before any byte is written and any target recorded
C4_InvalidArgRejected ==
    [][(call'.op = "set_targets" /\ ~ValidArg(call'.args[1])) =>
          /\ call'.raised = "ValueError"
          /\ conn' = <<>>
          /\ targets' = targets]_vars

\* C5: every per-channel operation called with a channel index < 0 or
\* >= channel_count fails with a validation error, performs no write, flush
\* or read on the transport, and leaves every per-channel table unchanged.
PerChannelOps ==
    {"set_target", "get_target", "get_position", "set_limits", "get_limits",
     "stop_channel", "is_moving", "set_speed", "get_speed", "set_acceleration",
     "get_acceleration", "get_digital", "set_digital", "get_analog"}

C5_InvalidChannelRejected ==
    [][(/\ call'.op \in PerChannelOps
        /\ ~(0 <= call'.args[1] /\ call'.args[1] < channels))
       => /\ call'.raised = "ValueError"
          /\ conn' = <<>>
          /\ targets' = targets
          /\ speeds' = speeds
          /\ accels' = accels
          /\ target_limits_us' = target_limits_us]_vars

\* get_position on the first channel above the range was rejected, on an
\* instance whose tables already hold a target
C5_Witness ==
    /\ call.op = "get_position"
    /\ call.args[1] = channels
    /\ call.raised = "ValueError"
    /\ conn = <<>>
    /\ \E c \in 0..(channels - 1) : targets[c] # None

C7_BatchRecordsClamped ==
    (call.op = "set_targets" /\ call.raised = "none")
    => \A i \in 1..Len(ArgItems(call.args[1])) :
           LET c == ArgItems(call.args[1])[i][1]
               v == ArgItems(call.args[1])[i][2]
           IN  targets[c] = Clamped(target_limits_us[c][1], target_limits_us[c][2], v)

\* C8: every target value written to the wire for channel c by set_target or
\* set_targets, in a SET_TARGET frame or inside a SET_MULTIPLE_TARGETS block,
\* on either variant, lies within [4 * min, 4 * max] quarter-microseconds of
\* the limits stored for c (a bound of None or 0 being no bound).
C8_WireWithinLimits ==
    call.op \in {"set_target", "set_targets"}
    => \A i \in 1..Len(Frames) :
           (IsSingleFrame(Frames[i]) \/ IsBlockFrame(Frames[i]))
           => \A c \in Covered(Frames[i]) :
                  LET lo == target_limits_us[c][1]
                      hi == target_limits_us[c][2]
                      w == WireTarget(Frames[i], c)
                  IN  /\ (lo # None /\ lo # 0) => 2 * w >= lo
                      /\ (hi # None /\ hi # 0) => 2 * w <= hi

\* C9: a successful stop(), on either variant and for any stored limits,
\* writes a target of 0 to the wire for every channel 0..channel_count-1 and
\* leaves every recorded target equal to 0.
C9_StopZeroesEveryChannel ==
    (call.op = "stop" /\ call.raised = "none")
    => \A c \in 0..(channels - 1) :
           /\ \E i \in 1..Len(Frames) : c \in Covered(Frames[i])
           /\ \A i \in 1..Len(Frames) :
                  c \in Covered(Frames[i]) => WireTarget(Frames[i], c) = 0
           /\ targets[c] = 0

\* C10: stop_channel(c), for every valid channel c and any stored limits for
\* c, writes exactly one frame (0xAA, device, 0x04, c, 0x00, 0x00) and records
\* target 0 for c.
C10_StopChannelZeroes ==
    (call.op = "stop_channel" /\ call.args[1] \in 0..(channels - 1))
    => /\ call.raised = "none"
       /\ Frames = << <<170, 12, 4, call.args[1], 0, 0>> >>
       /\ targets[call.args[1]] = 0

-----------------------------------------------------------------------------
(* Shutdown *)

\* the exceptions of the transport
TransportErrors == {"SerialException", "TimeoutError"}

\* the frames written before the transport was closed set a target for every
\* channel
StopsBeforeClose(log) ==
    LET k == CHOOSE i \in 1..Len(log) : log[i].op = "close"
        w == SelectSeq(SubSeq(log, 1, k - 1), LAMBDA e : e.op = "write")
    IN  \A c \in 0..(channels - 1) :
            \E i \in 1..Len(w) :
                /\ IsSingleFrame(w[i].data) \/ IsBlockFrame(w[i].data)
                /\ c \in Covered(w[i].data)

\* C11: over any sequence of operations in which close() is called with no
\* transport failure, the transport's close has been invoked exactly once
\* when close() ends; a close() after the first writes nothing and releases
\* nothing; the first one, when safe_close is set, writes the stop commands
\* for all channels and then releases the transport, and writes no command
\* when safe_close is off.
C11_CloseOnceOrdered ==
    [][(call'.op = "close" /\ call'.raised \notin TransportErrors) =>
          /\ conn_close_count' = 1
          /\ conn_close_count = 1 => conn' = <<>>
          /\ conn_close_count = 0 =>
                 /\ Len(conn') > 0
                 /\ conn'[Len(conn')] = CloseEvent
                 /\ safe_close => StopsBeforeClose(conn')
                 /\ ~safe_close => conn' = <<CloseEvent>>]_vars

\* every stored minimum is a value stop() can send
MinimumsEncode ==
    \A c \in 0..(channels - 1) :
        target_limits_us[c][1] = None \/ RoundQuarters(target_limits_us[c][1]) <= MaxEncodable

\* What the code guarantees: the same while stop() can encode its targets
C11_WhenStopEncodes ==
    [][(call'.op = "close" /\ call'.raised \notin TransportErrors /\ MinimumsEncode) =>
          /\ conn_close_count' = 1
          /\ call'.raised = "none"
          /\ conn_close_count = 1 => conn' = <<>>
          /\ conn_close_count = 0 =>
                 /\ conn'[Len(conn')] = CloseEvent
                 /\ safe_close => StopsBeforeClose(conn')
                 /\ ~safe_close => conn' = <<CloseEvent>>]_vars

\* C12: whatever failed before, and whether or not the stop() of a safe
\* close fails with a transport or range error, the transport has been
\* released exactly once when a close() call ends: that call released it,
\* or an earlier one did and this one does not release it again.
C12_ReleasedExactlyOnce ==
    [][call'.op = "close" => conn_close_count' = 1]_vars

\* What the code guarantees: the transport is never released twice, and a
\* close() that returns has released it
C12_NeverReleasedTwice ==
    /\ conn_close_count \in {0, 1}
    /\ _closed <=> conn_close_count = 1
    /\ (call.op = "close" /\ call.raised = "none") => conn_close_count = 1

-----------------------------------------------------------------------------
(* Threads *)

\* the transport operation at position i belongs to the same command as the
\* write at position w
SameCommand(w, i) ==
    wire[i].by = wire[w].by /\ wire[i].seq = wire[w].seq

\* C13: for any interleaving of threads calling send_cmd_bytes, the transport
\* sees each command's write, flush and optional read as one uninterrupted
\* group (nothing of another command comes between a command's write and
\* its read), and the response a caller gets is the response to the request
\* that caller wrote.
C13_CommandsSerialized ==
    /\ \A i \in 1..Len(wire) :
           /\ wire[i].op = "write" =>
                  /\ i + 1 <= Len(wire) =>
                         wire[i + 1].op = "flush" /\ SameCommand(i, i + 1)
                  /\ (wire[i].read > 0 /\ i + 2 <= Len(wire)) =>
                         wire[i + 2].op = "read" /\ SameCommand(i, i + 2)
           /\ wire[i].op = "flush" =>
                  i > 1 /\ wire[i - 1].op = "write" /\ SameCommand(i - 1, i)
           /\ wire[i].op = "read" =>
                  i > 2 /\ wire[i - 2].op = "write" /\ SameCommand(i - 2, i)
    /\ \A t \in Threads :
           got[t].raised = "none" =>
               /\ Len(got[t].data) = thread_cmd[t].read
               /\ \A j \in 1..Len(got[t].data) :
                      got[t].data[j] = [to |-> t, seq |-> got[t].seq]

\* both threads have sent commands, and a thread has read the response to
\* its second request after the other thread's request was answered
C13_Witness ==
    /\ \E i, j \in 1..Len(wire) :
           /\ i < j
           /\ wire[i].op = "read" /\ wire[j].op = "read"
           /\ wire[i].by # wire[j].by
           /\ Len(wire[i].data) = 2 /\ Len(wire[j].data) = 2
    /\ \E t \in Threads :
           /\ got[t].raised = "none" /\ got[t].seq = 1
           /\ got[t].data = <<[to |-> t, seq |-> 1], [to |-> t, seq |-> 1]>>

-----------------------------------------------------------------------------
(* Short reads *)

\* the most recent call read fewer bytes than it asked for
ShortRead(log) ==
    \E i \in 1..Len(log) :
        log[i].op = "read" /\ Len(log[i].got) < log[i].data[1]

CountOps(log, op) == Cardinality({i \in 1..Len(log) : log[i].op = op})

\* C14: when a command expects n > 0 response bytes and the transport read
\* returns fewer than n, the call fails with the timeout error after exactly
\* one write and exactly one read, the error reaches the caller, no recorded
\* state changes, and the connection lock is free afterwards.
C14_ShortReadFailsFast ==
    [][ShortRead(conn') =>
          /\ call'.raised = "TimeoutError"
          /\ CountOps(conn', "write") = 1
          /\ CountOps(conn', "read") = 1
          /\ conn'[Len(conn')].op = "read"
          /\ targets' = targets
          /\ speeds' = speeds
          /\ accels' = accels
          /\ target_limits_us' = target_limits_us
          /\ _conn_lock' = None]_vars

\* get_position got one byte of two and raised, on an instance that holds a
\* recorded target
C14_Witness ==
    /\ call.op = "get_position" /\ call.raised = "TimeoutError"
    /\ Len(conn) = 3
    /\ conn[3] = ReadEvent(2, <<64>>)
    /\ \E c \in 0..(channels - 1) : targets[c] # None

\* Among threads: the lock is held exactly by a thread between its acquire
\* and its release, so a thread whose command timed out and ended holds
\* nothing and the next command is not blocked by it
C14_ThreadsLockReleased ==
    \A t \in Threads :
        /\ _conn_lock = t <=> pc[t] \in {"write", "flush", "read", "release"}
        /\ (got[t].raised = "TimeoutError" /\ pc[t] = "idle") => _conn_lock # t

-----------------------------------------------------------------------------
(* Motion *)

\* the position, in eighths of a microsecond, that the most recent call read:
\* the two bytes are a count of quarter-microseconds, low byte first
PositionRead ==
    LET r == SelectSeq(conn, LAMBDA e : e.op = "read")
    IN  2 * (r[1].got[1] + 256 * r[1].got[2])

\* C15: is_moving(c) returns false whenever the recorded target of c is
\* unset or 0, whatever position the device would report; for a recorded
\* target > 0 it returns true iff the target differs from the position read
\* by more than 0.01 microseconds (8/100 of an eighth).
C15_IsMovingComparesTarget ==
    (call.op = "is_moving" /\ call.args[1] \in 0..(channels - 1)) =>
        LET target == targets[call.args[1]]
        IN  IF target = None \/ target = 0
            THEN call.raised = "none" /\ call.ret = FALSE
            ELSE /\ target > 0
                 /\ call.raised = "none" =>
                        call.ret = (\/ 100 * (target - PositionRead) > 8
                                    \/ 100 * (PositionRead - target) > 8)

\* the recorded target of the channel is 0 and is_moving returned false
C15_Witness ==
    /\ call.op = "is_moving" /\ call.args[1] = 3
    /\ targets[3] = 0
    /\ call.raised = "none" /\ call.ret = FALSE

\* the same for a target of 1500 us: moving with the servo at 0, not moving
\* with it at 1500 us
C15_Compared ==
    (call.op = "is_moving" /\ call.raised = "none" /\ call.args[1] \in 0..(channels - 1)
     /\ targets[call.args[1]] = 12000)
    => call.ret = (conn[3].got # <<112, 23>>)

-----------------------------------------------------------------------------
(* Waiting *)

\* C16: wait_until_done_moving does not return while any_are_moving() is
\* true and returns at the first poll that reports false; on either variant,
\* once it is called (no further commands are issued) and the position of
\* every channel comes to equal the last target written to the wire for it,
\* the call eventually returns.
C16_WaitReturns ==
    /\ [][wait_pc = "polling" =>
             /\ PollNow.ret = TRUE => wait_pc' # "returned"
             /\ (PollNow.ret = FALSE /\ call' # call) => wait_pc' = "returned"]_vars
    /\ (wait_pc = "polling") ~> (wait_pc = "returned")

\* What the code guarantees: the call does not return while any_are_moving()
\* is true and returns at the first poll that reports false
C16_ReturnsAtFalsePoll ==
    [][wait_pc = "polling" =>
          /\ PollNow.ret = TRUE => wait_pc' # "returned"
          /\ (PollNow.ret = FALSE /\ call' # call) => wait_pc' = "returned"
          /\ wait_pc' = "returned" => PollNow.ret = FALSE]_vars

\* and on MiniMaestro, which asks the device, the call returns
C16_MiniReturns ==
    (model = "mini" /\ wait_pc = "polling") ~> (wait_pc = "returned")

\* On MicroMaestro the call returns when every recorded target is a whole
\* number of quarter-microseconds
C16_MicroReturnsOnQuarters ==
    (/\ model = "micro" /\ wait_pc = "polling"
     /\ \A c \in 0..(channels - 1) : targets[c] = None \/ targets[c] % 2 = 0)
    ~> (wait_pc = "returned")

-----------------------------------------------------------------------------
(* Limits of 0 and None *)

\* the most recent call sent v as one SET_TARGET frame for c (to the nearest
\* quarter-microsecond) and recorded v
SentAndRecorded(c, v) ==
    /\ call.raised = "none"
    /\ Len(Frames) = 1
    /\ IsSingleFrame(Frames[1])
    /\ Frames[1][4] = c
    /\ 2 * WireTarget(Frames[1], c) - v \in -1..1
    /\ targets[c] = v

\* C17: when a bound of the limits stored for c is 0 or None, set_target(c, v)
\* does not clamp on that side: for every v in [0, 4095.75] that the other
\* bound does not restrict, the value sent and recorded is v itself.
C17_ZeroOrNoneUnrestricted ==
    (/\ call.op = "set_target"
     /\ call.args[1] \in 0..(channels - 1)
     /\ 0 <= call.args[2] /\ call.args[2] <= 32766)
    => LET c == call.args[1]
           v == call.args[2]
           lo == target_limits_us[c][1]
           hi == target_limits_us[c][2]
       IN  (/\ lo \in {None, 0} \/ hi \in {None, 0}
            /\ lo \in {None, 0} \/ v >= lo
            /\ hi \in {None, 0} \/ v <= hi)
           => SentAndRecorded(c, v)

\* What the code guarantees: a bound of None, and a minimum of 0, do not
\* restrict
C17_NoneUnrestricted ==
    (/\ call.op = "set_target"
     /\ call.args[1] \in 0..(channels - 1)
     /\ 0 <= call.args[2] /\ call.args[2] <= 32766)
    => LET c == call.args[1]
           v == call.args[2]
           lo == target_limits_us[c][1]
           hi == target_limits_us[c][2]
       IN  (/\ lo \in {None, 0} \/ hi = None
            /\ lo \in {None, 0} \/ v >= lo
            /\ hi = None \/ v <= hi)
           => SentAndRecorded(c, v)

-----------------------------------------------------------------------------
(* Error register *)

\* the flags in the order of their bits
FlagOfBit ==
    <<"SERIAL_SIGNAL_ERROR", "SERIAL_OVERRUN_ERROR", "SERIAL_BUFFER_FULL_ERROR",
      "SERIAL_CRC_ERROR", "SERIAL_PROTOCOL_ERROR", "SERIAL_TIMEOUT_ERROR",
      "SCRIPT_STACK_ERROR", "SCRIPT_CALL_STACK_ERROR",
      "SCRIPT_PROGRAM_COUNTER_ERROR">>

\* C18: get_errors decodes the 2-byte response (byte 0 low, byte 1 high)
\* into exactly the set of the 9 MaestroError flags whose bit is set in the
\* register: flag i is in the result iff bit i is set, for every register
\* value; bit 0 alone gives {SERIAL_SIGNAL_ERROR}, a zero register the empty
\* set.
C18_ErrorsDecoded ==
    (call.op = "get_errors" /\ call.raised = "none") =>
        LET data == conn[3].got
            register == data[1] + 256 * data[2]
        IN  /\ call.ret \subseteq {FlagOfBit[i] : i \in 1..9}
            /\ \A i \in 0..8 :
                   FlagOfBit[i + 1] \in call.ret <=> (register \div (2 ^ i)) % 2 = 1
            /\ data = <<1, 0>> => call.ret = {"SERIAL_SIGNAL_ERROR"}
            /\ data = <<0, 0>> => call.ret = {}

\* a register with bits 0 and 8 set was decoded
C18_Witness ==
    /\ call.op = "get_errors" /\ call.raised = "none"
    /\ conn[3].got = <<1, 1>>
    /\ call.ret = {"SERIAL_SIGNAL_ERROR", "SCRIPT_PROGRAM_COUNTER_ERROR"}

-----------------------------------------------------------------------------
(* PWM *)

\* C19: on MiniMaestro, set_pwm fails with the validation error and writes
\* nothing whenever the on-time exceeds the period or the period exceeds
\* 341.3125 us; with period 341.3125 us and on-time 0 it succeeds and writes
\* one SET_PWM frame with payload 00 00 7F 7F; whenever it succeeds the
\* payload is the 14-bit encodings of round(48 * on_time) and
\* round(48 * period).
C19_PwmValidated ==
    (call.op = "set_pwm" /\ model = "mini") =>
        LET on == call.args[1]
            per == call.args[2]
        IN  /\ (on > per \/ per > 32766) =>
                   call.raised = "ValueError" /\ conn = <<>>
            /\ (on = 0 /\ per = 32766) =>
                   /\ call.raised = "none"
                   /\ Frames = << <<170, 12, 10, 0, 0, 127, 127>> >>
            /\ call.raised = "none" =>
                   /\ Len(Frames) = 1
                   /\ Len(Frames[1]) = 7
                   /\ SubSeq(Frames[1], 1, 3) = <<170, 12, 10>>
                   /\ \A i \in 4..7 : Frames[1][i] \in 0..127
                   /\ 2 * (Frames[1][4] + 128 * Frames[1][5]) - on \in -1..1
                   /\ 2 * (Frames[1][6] + 128 * Frames[1][7]) - per \in -1..1

\* an on-time of 100 us with a period of 0 was rejected after a call that
\* wrote a frame
C19_Witness ==
    /\ call.op = "set_pwm" /\ model = "mini"
    /\ call.args = <<9600, 0>>
    /\ call.raised = "ValueError" /\ conn = <<>>
    /\ ncalls = 2

\* the largest period with on-time 0 was accepted
C19_Boundary ==
    (call.op = "set_pwm" /\ model = "mini" /\ call.args = <<0, 32766>>)
    => Frames = << <<170, 12, 10, 0, 0, 127, 127>> >>

-----------------------------------------------------------------------------
(* Speed and acceleration *)

\* the call named setter with command byte, on a valid channel, against the
\* table it records in (before and after the call) and the other table
SetterAsClaimed(setter, byte, before, after) ==
    (call'.op = setter /\ call'.args[1] \in 0..(channels - 1)) =>
        LET c == call'.args[1]
            v == call'.args[2]
        IN  IF 0 <= v /\ v <= 16383
            THEN /\ call'.raised = "none"
                 /\ Frames' = << <<170, 12, byte, c, v % 128, v \div 128>> >>
                 /\ after = [before EXCEPT ![c] = v]
            ELSE /\ call'.raised = "ValueError"
                 /\ conn' = <<>>
                 /\ after = before

\* the call named getter returns the entry of the table
GetterAsClaimed(getter, table) ==
    (call'.op = getter /\ call'.args[1] \in 0..(channels - 1)) =>
        /\ call'.raised = "none"
        /\ call'.ret = table[call'.args[1]]
        /\ conn' = <<>>

-----------------------------------------------------------------------------
(* Range of the recorded accelerations *)

\* C21: valid acceleration values are 0 to 255: in every reachable state each
\* recorded acceleration is either unset or an integer in 0..255, that is,
\* set_acceleration rejects any value above 255 without writing to the
\* transport.
C21_AccelerationInRange ==
    /\ \A c \in 0..(channels - 1) : accels[c] = None \/ accels[c] \in 0..255
    /\ (call.op = "set_acceleration" /\ call.args[2] > 255) =>
           call.raised = "ValueError" /\ conn = <<>>

\* What the code guarantees: a recorded acceleration is unset or encodable
C21_AccelerationEncodable ==
    \A c \in 0..(channels - 1) : accels[c] = None \/ accels[c] \in 0..MaxEncodable

-----------------------------------------------------------------------------
(* Moving state of all channels *)

\* channel c has a target above 0 recorded and the device reports another
\* position for it
Moving(c) ==
    /\ targets[c] # None
    /\ targets[c] > 0
    /\ targets[c] # 2 * position[c]

\* C22: any_are_moving on MicroMaestro returns true iff is_moving(c) is true
\* for at least one channel c in 0..5, obtained by polling is_moving per
\* channel and never by sending GET_MOVING_STATE; on MiniMaestro it writes
\* exactly one frame (0xAA, device, 0x13), reads one byte, and returns true
\* iff that byte is non-zero, whatever targets are recorded.
C22_AnyAreMoving ==
    [][(call'.op = "any_are_moving" /\ ncalls' # ncalls) =>
          IF model = "micro"
          THEN /\ \A i \in 1..Len(Frames') :
                      /\ Len(Frames'[i]) = 4
                      /\ SubSeq(Frames'[i], 1, 3) = <<170, 12, 16>>
                      /\ Frames'[i][4] \in 0..5
                      /\ targets[Frames'[i][4]] # None
                      /\ targets[Frames'[i][4]] > 0
               /\ \A i, j \in 1..Len(Frames') :
                      i < j => Frames'[i][4] < Frames'[j][4]
               /\ call'.raised = "none" =>
                      call'.ret = (\E c \in 0..5 : Moving(c))
          ELSE /\ Frames' = << <<170, 12, 19>> >>
               /\ CountOps(conn', "read") = 1
               /\ conn'[Len(conn')].op = "read"
               /\ conn'[Len(conn')].data = <<1>>
               /\ call'.raised = "none" =>
                      call'.ret = (conn'[Len(conn')].got[1] # 0)]_vars

\* on MicroMaestro channel 0 had reached its target, channel 1 had not, and
\* any_are_moving returned true after asking for both positions
C22_Witness ==
    /\ model = "micro"
    /\ call.op = "any_are_moving" /\ call.raised = "none"
    /\ call.ret
    /\ targets[0] = 12000 /\ position[0] = 6000
    /\ Moving(1)
    /\ Len(Frames) = 2

-----------------------------------------------------------------------------
(* Recorded targets against the stored limits *)

\* C23: in every state reachable by set_limits, set_target, set_targets,
\* stop_channel and stop calls on either variant, every recorded target lies
\* within [0, 4095.75] and within the limit range currently stored for its
\* channel.
C23_TargetsWithinLimits ==
    \A c \in 0..(channels - 1) :
        targets[c] # None =>
            /\ 0 <= targets[c] /\ targets[c] <= 32766
            /\ target_limits_us[c][1] # None => targets[c] >= target_limits_us[c][1]
            /\ target_limits_us[c][2] # None => targets[c] <= target_limits_us[c][2]

\* What the code guarantees: every recorded target lies within [0, 4095.75]
C23_TargetsInRange ==
    \A c \in 0..(channels - 1) :
        targets[c] # None => 0 <= targets[c] /\ targets[c] <= 32766

\* What the code guarantees: the target a returning set_target records lies
\* within the limits stored for its channel at that time
C23_SetTargetWithinLimits ==
    (call.op = "set_target" /\ call.raised = "none") =>
        LET c == call.args[1]
        IN  /\ target_limits_us[c][1] # None => targets[c] >= target_limits_us[c][1]
            /\ target_limits_us[c][2] # None => targets[c] <= target_limits_us[c][2]

-----------------------------------------------------------------------------
(* Stored limits *)

\* the bounds of every stored pair are in order when both are present
LimitsOrdered ==
    \A c \in 0..(channels - 1) :
        (target_limits_us[c][1] # None /\ target_limits_us[c][2] # None)
        => target_limits_us[c][1] <= target_limits_us[c][2]

C24_OnlySetLimitsStores ==
    [][target_limits_us' # target_limits_us => call'.op = "set_limits"]_vars

-----------------------------------------------------------------------------
(* Recorded targets under threads *)

\* the SET_TARGET frames written for channel 0, in the order of the wire
TargetWrites ==
    SelectSeq(wire, LAMBDA e : /\ e.op = "write"
                               /\ Len(e.data) = 6
                               /\ e.data[3] = SET_TARGET
                               /\ e.data[4] = 0)

\* every call has returned
AllReturned == \A t \in Threads : pc[t] = "idle"

\* a recorded target changes only while the lock is held
MutatedUnderLock == targets' # targets => _conn_lock # None

\* a recorded target changes only to the target of a frame that the
\* recording thread has written in this call
MutatedAfterSend ==
    targets' # targets =>
        \E t \in Threads :
            /\ pc[t] = "record"
            /\ got[t].raised = "none"
            /\ targets'[0] = thread_cmd[t].target_us
            /\ \E i \in 1..Len(wire) :
                   /\ wire[i].op = "write"
                   /\ wire[i].by = t /\ wire[i].seq = sent[t]
                   /\ wire[i].data = pololu_cmd \o thread_cmd[t].cmd

\* once every call has returned, the recorded target of channel 0 is the
\* target of the last SET_TARGET frame written for it
LastFrameRecorded ==
    (AllReturned /\ Len(TargetWrites) > 0) =>
        LET f == TargetWrites[Len(TargetWrites)].data
        IN  /\ targets[0] # None
            /\ RoundQuarters(targets[0]) = f[5] + 128 * f[6]

\* C25: recorded per-channel state is mutated only inside the locked command
\* path and only after the corresponding send succeeded; consequently, when
\* several threads call set_target concurrently on the same channel, once all
\* calls have returned the recorded target equals the target carried by the
\* last SET_TARGET frame written to the wire for that channel.
C25_RecordedUnderLock ==
    /\ [][MutatedUnderLock /\ MutatedAfterSend]_vars
    /\ []LastFrameRecorded

\* What the code guarantees: a target is recorded only after its frame was
\* written, by the thread that wrote it
C25_RecordedAfterSend == [][MutatedAfterSend]_vars

\* The consequence alone: it fails as well
C25_LastFrameRecorded == []LastFrameRecorded

-----------------------------------------------------------------------------
(* Recorded targets against the wire *)

\* C26: in every state reachable by successful set_target, set_targets, stop,
\* stop_channel and set_digital calls on either variant, for every channel
\* whose recorded target is set, round(4 * recorded target) equals the
\* quarter-microsecond target most recently written to the wire for that
\* channel, by a SET_TARGET frame or inside a SET_MULTIPLE_TARGETS block.
C26_RecordedIsOnWire ==
    \A c \in 0..(channels - 1) :
        targets[c] # None => RoundQuarters(targets[c]) = dev_target[c]

\* What the code guarantees: the same for the channel of a set_target or
\* stop_channel call that has just returned
C26_SetTargetIsOnWire ==
    (call.op \in {"set_target", "stop_channel"} /\ call.raised = "none") =>
        RoundQuarters(targets[call.args[1]]) = dev_target[call.args[1]]

-----------------------------------------------------------------------------
(* Encoding of a target in a block and in a single frame *)

\* the quarter-microsecond value set_target(c, t) sends from the present state
SingleTargetSent(c, t) == WireTarget(set_target(Entry, c, t).conn[1].data, c)

\* the encodings of target t for channel c: what set_target sends,
\* round(4 * t), and 4 * t truncated
Encoding(kind, c, t) ==
    CASE kind = "single" -> SingleTargetSent(c, t)
      [] kind = "round" -> RoundQuarters(t)
      [] kind = "trunc" -> TruncQuarters(t)

\* the most recent call is a returned set_targets on MiniMaestro with no
\* limits stored, and every target in its blocks is encoded as named
BlocksEncodeBy(kind) ==
    (/\ model = "mini"
     /\ call.op = "set_targets" /\ call.raised = "none"
     /\ \A c \in 0..(channels - 1) : target_limits_us[c] = <<None, None>>)
    => \A i \in 1..Len(Frames) :
           IsBlockFrame(Frames[i]) =>
               \A c \in Covered(Frames[i]) :
                   WireTarget(Frames[i], c)
                       = Encoding(kind, c, Lookup(ArgItems(call.args[1]), c))

\* C27: the single-target path and the block path encode a target
\* identically: for every target t in [0, 4095.75], multiple of 0.25 or not,
\* and with no limits set, the 14-bit value placed for t inside a
\* SET_MULTIPLE_TARGETS block by MiniMaestro equals the value set_target
\* would send for t, namely round(4 * t).
C27_BlockEncodesAsSingle ==
    /\ BlocksEncodeBy("single")
    /\ BlocksEncodeBy("round")

\* What the code guarantees: the value in a block is 4 * t truncated
C27_BlockTruncates == BlocksEncodeBy("trunc")

\* What the code guarantees: set_target sends round(4 * t)
C27_SingleRounds ==
    (/\ call.op = "set_target" /\ call.raised = "none"
     /\ target_limits_us[call.args[1]] = <<None, None>>)
    => WireTarget(Frames[1], call.args[1]) = RoundQuarters(call.args[2])

-----------------------------------------------------------------------------
(* set_targets with an empty mapping *)

\* the step is a call of set_targets with a dict that has no items
EmptyMappingCall ==
    /\ call'.op = "set_targets"
    /\ ncalls' # ncalls
    /\ call'.args[1].mapping
    /\ Len(call'.args[1].items) = 0

\* C28: set_targets called with an empty channel->target mapping, on either
\* variant, completes without error, writes nothing to the transport and
\* leaves every recorded target unchanged.
C28_EmptyMappingIsNoOp ==
    [][EmptyMappingCall =>
          /\ call'.raised = "none"
          /\ conn' = <<>>
          /\ targets' = targets]_vars

\* What the code guarantees: on MicroMaestro the call is as claimed; on
\* MiniMaestro it raises IndexError, having written and recorded nothing
C28_EmptyMappingByVariant ==
    [][EmptyMappingCall =>
          /\ call'.raised = IF model = "micro" THEN "none" ELSE "IndexError"
          /\ conn' = <<>>
          /\ targets' = targets]_vars

====
